---- MODULE Spec2Model ----
(***************************************************************************)
(* Layer-origin resolution of osv-scalibr                                  *)
(* (artifact/image/layerscanning/trace/trace.go).                          *)
(*                                                                         *)
(* ResolveOriginLayer walks the chain layers of an image from the newest   *)
(* to the oldest and attributes every inventory item to the layer that     *)
(* introduced it; PopulateLayerDetails merges the resulting mapping into   *)
(* copies of the inventory items.                                          *)
(*                                                                         *)
(* Positions in the chain and in the inventory are 0-based as in the Go    *)
(* code; TLA+ sequences are 1-based, hence Layer(p) == chainLayers[p+1].   *)
(***************************************************************************)
EXTENDS Integers, Sequences, FiniteSets

VARIABLES
    chainLayers,    \* the chainLayers argument: oldest first
    heap,           \* the *extractor.Inventory objects, by address (1..Len(heap))
    inventory,      \* the inventory argument: a sequence of addresses into heap
    originDetails,  \* map[InventoryKey]*LayerDetails (local of Resolve, argument of Populate)
    pc,             \* position of the running call
    idx,            \* number of inventory items the outer loop has finished
    i,              \* inner loop variable: position of the layer to probe next
    invKey,         \* key of the item being walked
    foundOrigin,    \* the local of the same name
    probes,         \* log of the filesystem.Run calls issued so far
    cancelled,      \* ctx.Done() is closed
    cancelAt,       \* number of items finished when ctx was cancelled (-1: never)
    outputs,        \* the slices returned by the calls of PopulateLayerDetails
    \* winlocal Detector.internalScan
    knownNTHashesFile,  \* the embedded dictionary of NT hashes: lines split at ";"
    knownLMHashesFile,  \* the embedded dictionary of LM hashes
    hashes,         \* the hashes argument: one userHashInfo per enabled user
    usersWithLM,    \* the local of the same name
    results,        \* the map bruteforce fills: username -> password
    findings,       \* the findings internalScan returns
    scanErr,        \* internalScan returned an error
    scanPc,         \* position of the running scan
    scanIdx         \* number of users the loop of bruteforce has finished

\* The state of the scan, and the state of the resolution apart from ctx.
scanVars == <<knownNTHashesFile, knownLMHashesFile, hashes, usersWithLM, results,
              findings, scanErr, scanPc, scanIdx>>

traceVars == <<chainLayers, heap, inventory, originDetails, pc, idx, i, invKey,
               foundOrigin, probes, cancelAt, outputs>>

vars == <<chainLayers, heap, inventory, originDetails, pc, idx, i, invKey,
          foundOrigin, probes, cancelled, cancelAt, outputs, scanVars>>

\* No scan is running.
ScanIdle ==
    /\ knownNTHashesFile = << >>
    /\ knownLMHashesFile = << >>
    /\ hashes = << >>
    /\ usersWithLM = << >>
    /\ results = << >>
    /\ findings = << >>
    /\ scanErr = FALSE
    /\ scanPc = "idle"
    /\ scanIdx = 0

----------------------------------------------------------------------------
(* Bounds of the model.                                                    *)

MaxLayers == 3
MaxItems == 2
MaxCalls == 2
MaxUsers == 2

Files == {"a", "b"}

\* What a file of a layer holds: nothing, or the manifest of package foo.
Contents == {"", "foo"}

DiffIDs == <<"diff-id-1", "diff-id-2", "diff-id-3", "diff-id-4", "diff-id-5", "diff-id-6">>
Commands == <<"command-1", "command-2", "command-3", "command-4", "command-5", "command-6">>

\* Index() of the layer at position p is p + skew; the fake chain layers of the
\* tests take any index.
IndexSkews == {0, 1}

----------------------------------------------------------------------------
(* Data.                                                                   *)

\* A nil *extractor.LayerDetails.
Nil == [nil |-> TRUE]

LayerDetails(index, diffID, command, inBaseImage) ==
    [nil |-> FALSE, index |-> index, diffID |-> diffID, command |-> command,
     inBaseImage |-> inBaseImage]

Inventory(name, version, locations, extractor, layerDetails) ==
    [name |-> name, version |-> version, locations |-> locations,
     extractor |-> extractor, layerDetails |-> layerDetails]

NoKey == [purl |-> <<"", "", "">>, path |-> ""]

\* Extractor.ToPURL of the fake extractor: pkg:pypi/<name>@<version>.
ToPURL(inv) == <<"pkg:pypi", inv.name, inv.version>>

\* Inventory.ToKey: fails for an item without extractor, else the PURL and the
\* first location.
ToKey(inv) ==
    IF inv.extractor = "none"
    THEN [err |-> TRUE, key |-> NoKey]
    ELSE [err |-> FALSE,
          key |-> [purl |-> ToPURL(inv),
                   path |-> IF Len(inv.locations) = 0 THEN "" ELSE inv.locations[1]]]

\* filesystem.Run restricted to filesToExtract with chainFS as the only scan
\* root: the inventory the fake extractor reports for the files that exist.
Run(filesToExtract, chainFS) ==
    { Inventory(chainFS[f], "", <<f>>, "fake-extractor", Nil) :
        f \in { g \in Files : (\E k \in 1..Len(filesToExtract) : filesToExtract[k] = g)
                              /\ chainFS[g] # "" } }

N == Len(chainLayers)
Layer(p) == chainLayers[p + 1]
Item(j) == heap[inventory[j + 1]]

\* Variant of layerToDiffID whose map is keyed by the layers' own Index().
layerToDiffIDByIndex(k) ==
    IF \E p \in 0..(N - 1) : Layer(p).index = k
    THEN Layer(CHOOSE p \in 0..(N - 1) : Layer(p).index = k).diffID
    ELSE ""

\* The maps built at the head of ResolveOriginLayer; a Go map yields "" for a
\* missing key.
layerToCommands(k) == IF k \in 0..(N - 1) THEN Layer(k).command ELSE ""
layerToDiffID(k) == IF k \in 0..(N - 1) THEN Layer(k).diffID ELSE ""

MapPut(m, k, v) == [x \in (DOMAIN m) \cup {k} |-> IF x = k THEN v ELSE m[x]]

\* m[k] of a Go map of pointers: nil for a missing key.
MapGet(m, k) == IF k \in DOMAIN m THEN m[k] ELSE Nil

----------------------------------------------------------------------------
(* Inputs.                                                                 *)

SeqsUpTo(S, n) == UNION { [1..k -> S] : k \in 0..n }

ChainLayerAt(p, fs, skew) ==
    [index |-> p + skew, fs |-> fs, diffID |-> DiffIDs[p + 1], command |-> Commands[p + 1]]

\* The newest layer is the one the inventory was extracted from: it holds every
\* file. The older layers hold any of them.
FinalFS == [f \in Files |-> "foo"]

ChainsOf(n, skew) ==
    { [p \in 1..n |-> ChainLayerAt(p - 1, IF p = n THEN FinalFS ELSE fss[p], skew)] :
        fss \in [1..(n - 1) -> [Files -> Contents]] }

ItemUniverse ==
    { Inventory("foo", "", <<"a">>, "fake-extractor", Nil),
      Inventory("foo", "", <<"b">>, "fake-extractor", Nil),
      Inventory("foo", "", <<"a", "b">>, "fake-extractor", Nil),
      Inventory("foo", "1.0", <<"a">>, "fake-extractor", Nil),
      Inventory("foo", "", <<>>, "fake-extractor", Nil),
      Inventory("foo", "", <<"a">>, "none", Nil) }

Init ==
    /\ \E n \in 0..MaxLayers : \E skew \in IndexSkews : chainLayers \in ChainsOf(n, skew)
    /\ heap \in SeqsUpTo(ItemUniverse, MaxItems)
    /\ inventory = [k \in 1..Len(heap) |-> k]
    /\ originDetails = << >>
    /\ pc = "loop"
    /\ idx = 0
    /\ i = 0
    /\ invKey = NoKey
    /\ foundOrigin = FALSE
    /\ probes = << >>
    /\ cancelled = FALSE
    /\ cancelAt = -1
    /\ outputs = << >>
    /\ ScanIdle

----------------------------------------------------------------------------
(* ResolveOriginLayer.                                                     *)

\* chainLayers[len(chainLayers)-1] of an empty slice: index out of range.
PanicNoLayers ==
    /\ pc = "loop"
    /\ idx < Len(inventory)
    /\ N = 0
    /\ pc' = "panic"
    /\ UNCHANGED <<chainLayers, heap, inventory, originDetails, idx, i, invKey,
                   foundOrigin, probes, cancelled, cancelAt, outputs>>
    /\ UNCHANGED scanVars

\* Variant of SkipItem that ignores the error and records the zero key.
SkipItemRecordsZeroKey ==
    /\ pc = "loop"
    /\ idx < Len(inventory)
    /\ N > 0
    /\ ToKey(Item(idx)).err
    /\ originDetails' = MapPut(originDetails, ToKey(Item(idx)).key,
                               LayerDetails(N - 1, "", "", FALSE))
    /\ idx' = idx + 1
    /\ UNCHANGED <<chainLayers, heap, inventory, pc, i, invKey,
                   foundOrigin, probes, cancelled, cancelAt, outputs>>
    /\ UNCHANGED scanVars

\* inv.ToKey() failed: continue.
SkipItem ==
    /\ pc = "loop"
    /\ idx < Len(inventory)
    /\ N > 0
    /\ ToKey(Item(idx)).err
    /\ idx' = idx + 1
    /\ UNCHANGED <<chainLayers, heap, inventory, originDetails, pc, i, invKey,
                   foundOrigin, probes, cancelled, cancelAt, outputs>>
    /\ UNCHANGED scanVars

\* The entry written before the walk: the last layer, by its own Index().
DefaultDetails ==
    LET layerIndex == Layer(N - 1).index
    IN LayerDetails(layerIndex, layerToDiffID(layerIndex), layerToCommands(layerIndex), FALSE)

\* Variant of BeginItem with foundOrigin declared outside the loop over the items.
BeginItemKeepsFoundOrigin ==
    /\ pc = "loop"
    /\ idx < Len(inventory)
    /\ N > 0
    /\ ~ToKey(Item(idx)).err
    /\ invKey' = ToKey(Item(idx)).key
    /\ originDetails' = MapPut(originDetails, ToKey(Item(idx)).key, DefaultDetails)
    /\ i' = N - 2
    /\ pc' = "walk"
    /\ UNCHANGED <<chainLayers, heap, inventory, idx, foundOrigin, probes, cancelled,
                   cancelAt, outputs>>
    /\ UNCHANGED scanVars

BeginItem ==
    /\ pc = "loop"
    /\ idx < Len(inventory)
    /\ N > 0
    /\ ~ToKey(Item(idx)).err
    /\ invKey' = ToKey(Item(idx)).key
    /\ originDetails' = MapPut(originDetails, ToKey(Item(idx)).key, DefaultDetails)
    /\ foundOrigin' = FALSE
    /\ i' = N - 2
    /\ pc' = "walk"
    /\ UNCHANGED <<chainLayers, heap, inventory, idx, probes, cancelled, cancelAt, outputs>>
    /\ UNCHANGED scanVars

\* The inner loop over oldInventory.
foundPackage(oldInventory, key) ==
    \E oldInv \in oldInventory : ~ToKey(oldInv).err /\ ToKey(oldInv).key = key

\* Variant of IntroducedAt that names the layer the item is absent from.
IntroducedAtLayerBelow(k) ==
    LayerDetails(k - 1, layerToDiffID(k - 1), layerToCommands(k - 1), FALSE)

\* The entry written when the item is absent from the layer at position k - 1.
IntroducedAt(k) == LayerDetails(k, layerToDiffID(k), layerToCommands(k), FALSE)

\* Variant of WalkNoLocations that takes the default for the attribution.
WalkNoLocationsAttributes ==
    /\ pc = "walk"
    /\ i >= 0
    /\ Len(Item(idx).locations) = 0
    /\ foundOrigin' = TRUE
    /\ pc' = "after"
    /\ UNCHANGED <<chainLayers, heap, inventory, originDetails, idx, i, invKey,
                   probes, cancelled, cancelAt, outputs>>
    /\ UNCHANGED scanVars

\* An item without locations: break before any probe.
WalkNoLocations ==
    /\ pc = "walk"
    /\ i >= 0
    /\ Len(Item(idx).locations) = 0
    /\ pc' = "after"
    /\ UNCHANGED <<chainLayers, heap, inventory, originDetails, idx, i, invKey,
                   foundOrigin, probes, cancelled, cancelAt, outputs>>
    /\ UNCHANGED scanVars

\* The configuration of one probe: the fields taken over from the scan
\* configuration are left out, the two set per probe are kept.
makeExtractorConfig(filesToExtract, chainFS) ==
    [FilesToExtract |-> filesToExtract, ScanRoots |-> <<chainFS>>]

\* makeExtractorConfig(inv.Locations, oldChainLayer.FS())
ProbeConfig == makeExtractorConfig(Item(idx).locations, Layer(i).fs)

ProbeEntry(outcome) ==
    [item |-> idx, layer |-> i, files |-> ProbeConfig.FilesToExtract,
     roots |-> ProbeConfig.ScanRoots, outcome |-> outcome]

\* filesystem.Run returned an error (an I/O error, or ctx is cancelled): break.
ProbeError ==
    /\ pc = "walk"
    /\ i >= 0
    /\ Len(Item(idx).locations) > 0
    /\ probes' = Append(probes, ProbeEntry("error"))
    /\ pc' = "after"
    /\ UNCHANGED <<chainLayers, heap, inventory, originDetails, idx, i, invKey,
                   foundOrigin, cancelled, cancelAt, outputs>>
    /\ UNCHANGED scanVars

\* The probe succeeded and the key is among its results: go one layer back.
ProbeFound ==
    /\ pc = "walk"
    /\ i >= 0
    /\ Len(Item(idx).locations) > 0
    /\ ~cancelled
    /\ foundPackage(Run(ProbeConfig.FilesToExtract, ProbeConfig.ScanRoots[1]), invKey)
    /\ probes' = Append(probes, ProbeEntry("found"))
    /\ i' = i - 1
    /\ UNCHANGED <<chainLayers, heap, inventory, originDetails, pc, idx, invKey,
                   foundOrigin, cancelled, cancelAt, outputs>>
    /\ UNCHANGED scanVars

\* Variant of ProbeAbsent without the break: the walk goes on below the absence.
ProbeAbsentNoBreak ==
    /\ pc = "walk"
    /\ i >= 0
    /\ Len(Item(idx).locations) > 0
    /\ ~cancelled
    /\ ~foundPackage(Run(ProbeConfig.FilesToExtract, ProbeConfig.ScanRoots[1]), invKey)
    /\ probes' = Append(probes, ProbeEntry("absent"))
    /\ originDetails' = MapPut(originDetails, invKey, IntroducedAt(i + 1))
    /\ foundOrigin' = TRUE
    /\ i' = i - 1
    /\ UNCHANGED <<chainLayers, heap, inventory, pc, idx, invKey, cancelled, cancelAt,
                   outputs>>
    /\ UNCHANGED scanVars

\* The probe succeeded and the key is not among its results: introduced at i+1.
ProbeAbsent ==
    /\ pc = "walk"
    /\ i >= 0
    /\ Len(Item(idx).locations) > 0
    /\ ~cancelled
    /\ ~foundPackage(Run(ProbeConfig.FilesToExtract, ProbeConfig.ScanRoots[1]), invKey)
    /\ probes' = Append(probes, ProbeEntry("absent"))
    /\ originDetails' = MapPut(originDetails, invKey, IntroducedAt(i + 1))
    /\ foundOrigin' = TRUE
    /\ pc' = "after"
    /\ UNCHANGED <<chainLayers, heap, inventory, idx, i, invKey, cancelled, cancelAt, outputs>>
    /\ UNCHANGED scanVars

\* Variant of EndItem without the fallback to layer 0.
EndItemKeepsDefault ==
    /\ \/ pc = "after"
       \/ pc = "walk" /\ i < 0
    /\ idx' = idx + 1
    /\ pc' = "loop"
    /\ UNCHANGED <<chainLayers, heap, inventory, originDetails, i, invKey, foundOrigin,
                   probes, cancelled, cancelAt, outputs>>
    /\ UNCHANGED scanVars

\* After the inner loop (left by break or by i < 0): if !foundOrigin, layer 0.
EndItem ==
    /\ \/ pc = "after"
       \/ pc = "walk" /\ i < 0
    /\ originDetails' = IF foundOrigin THEN originDetails
                        ELSE MapPut(originDetails, invKey, IntroducedAt(0))
    /\ idx' = idx + 1
    /\ pc' = "loop"
    /\ UNCHANGED <<chainLayers, heap, inventory, i, invKey, foundOrigin, probes,
                   cancelled, cancelAt, outputs>>
    /\ UNCHANGED scanVars

Return ==
    /\ pc = "loop"
    /\ idx = Len(inventory)
    /\ pc' = "done"
    /\ UNCHANGED <<chainLayers, heap, inventory, originDetails, idx, i, invKey,
                   foundOrigin, probes, cancelled, cancelAt, outputs>>
    /\ UNCHANGED scanVars

Next ==
    \/ PanicNoLayers
    \/ SkipItem
    \/ BeginItem
    \/ WalkNoLocations
    \/ ProbeError
    \/ ProbeFound
    \/ ProbeAbsent
    \/ EndItem
    \/ Return

Spec == Init /\ [][Next]_vars

----------------------------------------------------------------------------
(* ResolveOriginLayer under a context that the caller may cancel at any    *)
(* moment of the call.                                                     *)

Cancel ==
    /\ pc \in {"loop", "walk", "after"}
    /\ ~cancelled
    /\ cancelled' = TRUE
    /\ cancelAt' = idx
    /\ UNCHANGED <<chainLayers, heap, inventory, originDetails, pc, idx, i, invKey,
                   foundOrigin, probes, outputs>>
    /\ UNCHANGED scanVars

NextCtx == Next \/ Cancel

SpecCtx == Init /\ [][NextCtx]_vars

----------------------------------------------------------------------------
(* PopulateLayerDetails.                                                   *)

\* Variant of NewInv whose composite literal leaves Version out.
NewInvWithoutVersion(inv, od) ==
    LET k == ToKey(inv)
        copy == Inventory(inv.name, "", inv.locations, inv.extractor, Nil)
    IN IF ~k.err /\ MapGet(od, k.key) # Nil
       THEN [copy EXCEPT !.layerDetails = MapGet(od, k.key)]
       ELSE copy

\* The fields of the composite literal &extractor.Inventory{...} and the
\* conditional assignment of LayerDetails that follows it.
NewInv(inv, od) ==
    LET k == ToKey(inv)
        copy == Inventory(inv.name, inv.version, inv.locations, inv.extractor, Nil)
    IN IF ~k.err /\ MapGet(od, k.key) # Nil
       THEN [copy EXCEPT !.layerDetails = MapGet(od, k.key)]
       ELSE copy

\* Variant of AllocAddr that writes into the input object.
AllocAddrInPlace(h, a, j) == a

\* Address of the object made for the item at position j (1-based) of the
\* input, itself at address a: a fresh allocation.
AllocAddr(h, a, j) == Len(h) + j

\* The slice the call returns.
PopulateOut(h, invs) == [j \in 1..Len(invs) |-> AllocAddr(h, invs[j], j)]

\* The heap after the call.
PopulateHeap(h, invs, od) ==
    LET out == PopulateOut(h, invs)
        written == { out[j] : j \in 1..Len(invs) }
        size == IF \E a \in written : a > Len(h) THEN Len(h) + Len(invs) ELSE Len(h)
        last(a) == CHOOSE j \in 1..Len(invs) :
                       out[j] = a /\ \A m \in 1..Len(invs) : out[m] = a => m <= j
    IN [a \in 1..size |->
          IF a \in written THEN NewInv(h[invs[last(a)]], od)
          ELSE IF a <= Len(h) THEN h[a]
          ELSE Inventory("", "", << >>, "none", Nil)]

PopulateLayerDetails ==
    /\ pc = "merge"
    /\ Len(outputs) < MaxCalls
    /\ outputs' = Append(outputs, PopulateOut(heap, inventory))
    /\ heap' = PopulateHeap(heap, inventory, originDetails)
    /\ UNCHANGED <<chainLayers, inventory, originDetails, pc, idx, i, invKey,
                   foundOrigin, probes, cancelled, cancelAt>>
    /\ UNCHANGED scanVars

PriorDetails == LayerDetails(0, "diff-id-1", "command-1", TRUE)

MergeItemUniverse ==
    { Inventory("foo", "1.0", locs, ext, ld) :
        locs \in {<<"a">>, <<"b">>}, ext \in {"fake-extractor", "none"},
        ld \in {Nil, PriorDetails} }

MergeKeys == { ToKey(inv).key : inv \in { x \in MergeItemUniverse : ~ToKey(x).err } }

MergeDetails ==
    { Nil, LayerDetails(1, "diff-id-2", "command-2", FALSE),
      LayerDetails(2, "diff-id-3", "command-3", FALSE) }

OriginMaps == UNION { [ks -> MergeDetails] : ks \in SUBSET MergeKeys }

InitMerge ==
    /\ chainLayers = << >>
    /\ heap \in SeqsUpTo(MergeItemUniverse, MaxItems)
    /\ inventory = [k \in 1..Len(heap) |-> k]
    /\ originDetails \in OriginMaps
    /\ pc = "merge"
    /\ idx = 0
    /\ i = 0
    /\ invKey = NoKey
    /\ foundOrigin = FALSE
    /\ probes = << >>
    /\ cancelled = FALSE
    /\ cancelAt = -1
    /\ outputs = << >>
    /\ ScanIdle

NextMerge == PopulateLayerDetails

SpecMerge == InitMerge /\ [][NextMerge]_vars

----------------------------------------------------------------------------
(* Vocabulary of the properties.                                           *)

Positions == 0..(Len(inventory) - 1)

KeyOK(j) == ~ToKey(Item(j)).err
KeyOf(j) == ToKey(Item(j)).key
Traceable(j) == KeyOK(j) /\ Len(Item(j).locations) > 0

\* The identities layer p holds: one per existing file, as the extractor
\* reports it.
KeysAt(p) ==
    { [purl |-> <<"pkg:pypi", Layer(p).fs[f], "">>, path |-> f] :
        f \in { g \in Files : Layer(p).fs[g] # "" } }

VisibleAt(j, p) == KeyOf(j) \in KeysAt(p)

ProbesOf(j) == { n \in 1..Len(probes) : probes[n].item = j }

NoProbeFailed == \A n \in 1..Len(probes) : probes[n].outcome # "error"

\* The record of the layer at position p of the supplied chain.
DetailsOfLayer(p) == LayerDetails(p, Layer(p).diffID, Layer(p).command, FALSE)

Resolved(j, details) ==
    /\ KeyOf(j) \in DOMAIN originDetails
    /\ originDetails[KeyOf(j)] = details

----------------------------------------------------------------------------
(* C1: first-absence attribution. In the mapping ResolveOriginLayer        *)
(* returns after a run in which every probe succeeded, an item with a key  *)
(* and locations whose identity is in every layer k..N-2 and not in layer  *)
(* k-1 (1 <= k <= N-1) has layerIndex k, whatever the layers below k-1     *)
(* hold: an item deleted and reintroduced resolves to the reintroduction.  *)
C1_FirstAbsence ==
    (pc = "done" /\ NoProbeFailed) =>
        \A j \in Positions : \A k \in 1..(N - 1) :
            ( /\ Traceable(j)
              /\ \A p \in k..(N - 2) : VisibleAt(j, p)
              /\ ~VisibleAt(j, k - 1) )
            => /\ KeyOf(j) \in DOMAIN originDetails
               /\ originDetails[KeyOf(j)].index = k

\* A reintroduced item: in layer 0, not in layer 1, back in layer 2.
C1_Witness ==
    /\ pc = "done"
    /\ NoProbeFailed
    /\ N = 3
    /\ \E j \in Positions :
          /\ Traceable(j)
          /\ VisibleAt(j, 0)
          /\ ~VisibleAt(j, 1)
          /\ Resolved(j, DetailsOfLayer(2))

(* C2: present since the base. An item with a key and locations that the   *)
(* probe of every older layer 0..N-2 found (none when N = 1) is returned   *)
(* with layer 0's index, diff identifier and command.                      *)
C2_PresentSinceBase ==
    pc = "done" =>
        \A j \in Positions :
            ( /\ Traceable(j)
              /\ N >= 1
              /\ \A p \in 0..(N - 2) :
                    \E n \in ProbesOf(j) : probes[n].layer = p /\ probes[n].outcome = "found" )
            => Resolved(j, DetailsOfLayer(0))

C2_Witness ==
    /\ pc = "done"
    /\ N = 3
    /\ \E j \in Positions :
          /\ Traceable(j)
          /\ \A p \in 0..1 :
                \E n \in ProbesOf(j) : probes[n].layer = p /\ probes[n].outcome = "found"
          /\ VisibleAt(j, 0) /\ VisibleAt(j, 1)
          /\ Resolved(j, DetailsOfLayer(0))

(* C3: an item with a key and no locations is not walked, and its entry    *)
(* in the returned mapping is the default written before the walk: the     *)
(* newest layer (index N-1, its diff identifier and command).              *)
C3_UntraceableKeepsDefault ==
    pc = "done" =>
        \A j \in Positions :
            (KeyOK(j) /\ Len(Item(j).locations) = 0 /\ N >= 1)
            => /\ ProbesOf(j) = {}
               /\ Resolved(j, DetailsOfLayer(N - 1))

(* C4: an item with a key and no locations is returned with layerIndex 0.  *)
C4_UntraceableResolvesToZero ==
    pc = "done" =>
        \A j \in Positions :
            (KeyOK(j) /\ Len(Item(j).locations) = 0 /\ N >= 1)
            => /\ KeyOf(j) \in DOMAIN originDetails
               /\ originDetails[KeyOf(j)].index = 0

C4_Witness ==
    /\ pc = "done"
    /\ N = 3
    /\ \E j \in Positions :
          /\ KeyOK(j)
          /\ Len(Item(j).locations) = 0
          /\ ProbesOf(j) = {}
          /\ Resolved(j, DetailsOfLayer(0))

\* The last item of the inventory with the key of item j: the one whose walk
\* decides the returned entry.
LastWithKey(j) == \A m \in Positions : (KeyOK(m) /\ KeyOf(m) = KeyOf(j)) => m <= j

(* C5: probe failure. When the probe of layer p for an item returns an     *)
(* error, no layer below p is probed for that item and the item's entry    *)
(* keeps the origin assigned last, the default (the newest layer); the     *)
(* call still returns a mapping.                                           *)
C5_ProbeFailureKeepsDefault ==
    pc = "done" =>
        \A n \in 1..Len(probes) :
            probes[n].outcome = "error" =>
                LET j == probes[n].item
                IN /\ \A m \in ProbesOf(j) : probes[m].layer >= probes[n].layer
                   /\ LastWithKey(j) => Resolved(j, DetailsOfLayer(N - 1))

(* C6: identity-key failure. With a non-empty chain, an item whose key     *)
(* cannot be computed is skipped: no probe is run for it, the run goes on, *)
(* and the keys of the returned mapping are exactly the keys of the items  *)
(* whose key can be computed.                                              *)
C6_KeyFailureSkipsItem ==
    (pc = "done" /\ N >= 1) =>
        /\ DOMAIN originDetails = { KeyOf(j) : j \in { m \in Positions : KeyOK(m) } }
        /\ \A j \in Positions : ~KeyOK(j) => ProbesOf(j) = {}

\* The first item has no key, a later one has: the run went on past it.
C6_Witness ==
    /\ pc = "done"
    /\ N >= 2
    /\ Len(inventory) = 2
    /\ ~KeyOK(0)
    /\ Traceable(1)
    /\ ProbesOf(1) # {}
    /\ DOMAIN originDetails = {KeyOf(1)}

----------------------------------------------------------------------------
(* Properties of PopulateLayerDetails, under SpecMerge.                    *)

Calls == 1..Len(outputs)
In(j) == heap[inventory[j]]
Out(c, j) == heap[outputs[c][j]]

(* C7: order-preserving enrichment. Every returned list is as long as the  *)
(* input; output j has the name, version, locations and extractor of input *)
(* j; and its layerDetails is origin[key(input j)] whenever the key can be *)
(* computed and is mapped to a non-nil record.                             *)
C7_OrderPreservingEnrichment ==
    \A c \in Calls :
        /\ Len(outputs[c]) = Len(inventory)
        /\ \A j \in 1..Len(inventory) :
              /\ Out(c, j).name = In(j).name
              /\ Out(c, j).version = In(j).version
              /\ Out(c, j).locations = In(j).locations
              /\ Out(c, j).extractor = In(j).extractor
              /\ (~ToKey(In(j)).err /\ MapGet(originDetails, ToKey(In(j)).key) # Nil)
                 => Out(c, j).layerDetails = originDetails[ToKey(In(j)).key]

\* Two different items, the second of which gets a record it did not have.
C7_Witness ==
    /\ Len(outputs) >= 1
    /\ Len(inventory) = 2
    /\ In(1).locations # In(2).locations
    /\ ~ToKey(In(2)).err
    /\ MapGet(originDetails, ToKey(In(2)).key) # Nil
    /\ In(2).layerDetails # originDetails[ToKey(In(2)).key]
    /\ Out(1, 2).layerDetails = originDetails[ToKey(In(2)).key]
    /\ Out(1, 1).locations = In(1).locations

(* C8: prior value retained. When the key of an input item is absent from  *)
(* the mapping, or cannot be computed, the output item's layerDetails is   *)
(* the input item's prior layerDetails, set or not.                        *)
C8_PriorValueRetained ==
    \A c \in Calls : \A j \in 1..Len(inventory) :
        (ToKey(In(j)).err \/ ToKey(In(j)).key \notin DOMAIN originDetails)
        => Out(c, j).layerDetails = In(j).layerDetails

\* Two returned lists hold equal items at equal positions.
SameOutputs(c, d) ==
    /\ Len(outputs[c]) = Len(outputs[d])
    /\ \A j \in 1..Len(outputs[c]) : Out(c, j) = Out(d, j)

\* A step leaves the input list, the objects it points to and the mapping as
\* they were.
InputsUntouched ==
    /\ inventory' = inventory
    /\ originDetails' = originDetails
    /\ \A j \in 1..Len(inventory) : heap'[inventory[j]] = heap[inventory[j]]

(* C9: non-destruction and repeatability. A call changes neither the input *)
(* list, nor an input item (its layerDetails included), nor the mapping;   *)
(* two calls with the same inventory and mapping return equal lists.       *)
C9_NonDestructiveRepeatable ==
    /\ [][InputsUntouched]_vars
    /\ [](\A c \in Calls : \A d \in Calls : SameOutputs(c, d))

\* Two calls were made, and they had something to write: an item whose prior
\* record differs from the one the mapping holds for it.
C9_Witness ==
    /\ Len(outputs) = 2
    /\ outputs[1] # outputs[2]
    /\ \E j \in 1..Len(inventory) :
          /\ ~ToKey(In(j)).err
          /\ MapGet(originDetails, ToKey(In(j)).key) # Nil
          /\ In(j).layerDetails = PriorDetails
          /\ Out(2, j).layerDetails = originDetails[ToKey(In(j)).key]

----------------------------------------------------------------------------
(* Cancellation, under SpecCtx.                                            *)

(* C10: the resolution checks the cancellation signal at least once per    *)
(* item: once the context is cancelled no further item is processed, and   *)
(* the returned mapping holds no entry made or changed for the sake of the *)
(* cancellation. With cancelAt items finished when the context was         *)
(* cancelled, every key of the returned mapping is the key of one of the   *)
(* items 0..cancelAt (the item in hand at that moment included), and no    *)
(* probe was issued for a later item.                                      *)
C10_CancellationStopsRun ==
    (pc = "done" /\ cancelled) =>
        /\ \A key \in DOMAIN originDetails :
              \E j \in Positions : j <= cancelAt /\ KeyOK(j) /\ KeyOf(j) = key
        /\ \A n \in 1..Len(probes) : probes[n].item <= cancelAt

----------------------------------------------------------------------------
(* Further properties of ResolveOriginLayer, under Spec.                   *)

(* C11: well-formed attribution records. For a non-empty chain, every      *)
(* record of the returned mapping has a layerIndex within 0..N-1, the diff *)
(* identifier and command of the layer at that position of the supplied    *)
(* sequence (whatever Index() that layer reports) and introducedInBase-    *)
(* Image false.                                                            *)
C11_WellFormedRecords ==
    (pc = "done" /\ N >= 1) =>
        \A key \in DOMAIN originDetails :
            \E p \in 0..(N - 1) : originDetails[key] = DetailsOfLayer(p)

\* Layers whose Index() is not their position, and a mapping that names two
\* different layers.
C11_Witness ==
    /\ pc = "done"
    /\ N = 3
    /\ \A p \in 0..(N - 1) : Layer(p).index # p
    /\ \E j, m \in Positions :
          /\ Traceable(j) /\ Traceable(m)
          /\ Resolved(j, DetailsOfLayer(0))
          /\ Resolved(m, DetailsOfLayer(2))

\* The older layers that do not hold the identity of item j.
AbsentFrom(j) == { p \in 0..(N - 2) : ~VisibleAt(j, p) }

\* The position item j resolves to when it is the only item of the inventory
\* and every probe succeeds: above the newest older layer without it.
IndexAlone(j) ==
    IF Len(Item(j).locations) = 0 \/ AbsentFrom(j) = {}
    THEN 0
    ELSE 1 + CHOOSE p \in AbsentFrom(j) : \A q \in AbsentFrom(j) : q <= p

\* The position the outcomes of item j's own probes lead to.
IndexFromOwnProbes(j) ==
    IF \E n \in ProbesOf(j) : probes[n].outcome = "absent"
    THEN 1 + probes[CHOOSE n \in ProbesOf(j) : probes[n].outcome = "absent"].layer
    ELSE 0

EarlierProbesOf(j, n) == { m \in ProbesOf(j) : m < n }

\* What every probe of the log satisfies: it is for an item with a key and
\* locations, of an older layer, restricted to the item's locations with that
\* layer's filesystem as the only scan root; the first probe of an item is of
\* layer N-2, and every later one follows a probe of the layer above that found
\* the key.
ProbeDiscipline ==
    \A n \in 1..Len(probes) :
        LET e == probes[n]
            earlier == EarlierProbesOf(e.item, n)
        IN /\ e.item \in Positions
           /\ Traceable(e.item)
           /\ e.layer \in 0..(N - 2)
           /\ e.files = Item(e.item).locations
           /\ e.roots = <<Layer(e.layer).fs>>
           /\ IF earlier = {}
              THEN e.layer = N - 2
              ELSE LET m == CHOOSE x \in earlier : \A y \in earlier : y <= x
                   IN /\ probes[m].outcome = "found"
                      /\ e.layer = probes[m].layer - 1

ProbeBudget == Len(probes) <= Len(inventory) * (IF N >= 1 THEN N - 1 ELSE 0)

Terminated == pc \in {"done", "panic"}

\* The steps the call has left at most: it falls with every step.
Measure ==
    LET perItem == N + 2
        left == Len(inventory) - idx
    IN CASE pc = "loop" -> left * perItem + 1
         [] pc = "walk" -> (left - 1) * perItem + 1 + (i + 3)
         [] pc = "after" -> (left - 1) * perItem + 2
         [] OTHER -> 0

(* C13: probe order and early exit. For each item the layers are probed in *)
(* strictly decreasing position from N-2, each at most once; no probe      *)
(* follows the first probe of the item that fails or does not find the     *)
(* key; an item without locations is not probed; each probe is restricted  *)
(* to the item's locations and has the probed layer's filesystem as its    *)
(* only scan root; the run issues at most items x (N-1) probes; and it     *)
(* terminates: a call that has not ended can take a step, and every step   *)
(* lowers a measure that is never negative.                                *)
C13_ProbeOrderEarlyExit ==
    /\ [](ProbeDiscipline /\ ProbeBudget)
    /\ [](Measure >= 0 /\ (Terminated \/ ENABLED Next))
    /\ [][Measure' < Measure]_vars

\* An item probed at layers 1 and 0 in that order, another not probed after an
\* absence at layer 1, and the call has ended.
C13_Witness ==
    /\ pc = "done"
    /\ N = 3
    /\ Len(inventory) = 2
    /\ Len(probes) = 3
    /\ probes[1].item = 0 /\ probes[1].layer = 1 /\ probes[1].outcome = "absent"
    /\ probes[2].item = 1 /\ probes[2].layer = 1 /\ probes[2].outcome = "found"
    /\ probes[3].item = 1 /\ probes[3].layer = 0

(* C14: bounds safety on any chain length. For every inventory and every   *)
(* chain of N >= 0 layers, an empty chain with a non-empty inventory       *)
(* included, the resolver reads no chain layer at a position outside       *)
(* 0..N-1 and returns a mapping; with an empty inventory the mapping is    *)
(* empty.                                                                  *)
C14_BoundsSafety ==
    /\ pc # "panic"
    /\ (pc = "walk" /\ i >= 0) => i \in 0..(N - 1)
    /\ (pc = "done" /\ Len(inventory) = 0) => originDetails = << >>

----------------------------------------------------------------------------
(* The weak password detector for local Windows accounts                   *)
(* (detector/weakcredentials/winlocal/winlocal_windows.go):                *)
(* Detector.internalScan and Detector.bruteforce.                          *)

vulnRefLMPassword == "PASSWORD_HASH_LM_FORMAT"
vulnRefWeakPass == "WINDOWS_WEAK_PASSWORD"

\* User names, in the order of their text.
Usernames == <<"alice", "bob", "carol">>

LMHashes == {"", "LM1", "LM2"}
NTHashes == {"", "NT1", "NT2"}

userHashInfo(username, lmHash, ntHash) ==
    [username |-> username, lmHash |-> lmHash, ntHash |-> ntHash]

\* Dictionary files: a line is the sequence of its parts between ";". Lines
\* that are not hash;clearPass, a line with an empty hash and a hash given
\* twice are among them.
LMFiles ==
    { << >>,
      << <<"LM1", "pw-lm">> >>,
      << <<"LM2">>, <<"LM1", "old">>, <<"", "pw-none">>, <<"LM1", "pw-lm">> >> }

NTFiles ==
    { << >>,
      << <<"NT1", "pw-nt">> >>,
      << <<"NT1", "pw-nt">>, <<"NT2", "pw", "x">>, <<"", "pw-none">> >> }

\* loadDictionary: the lines of two parts, in order, written into dict.
RECURSIVE loadDictionary(_, _)
loadDictionary(file, dict) ==
    IF file = << >> THEN dict
    ELSE LET parts == Head(file)
         IN loadDictionary(Tail(file),
                           IF Len(parts) # 2 THEN dict
                           ELSE MapPut(dict, parts[1], parts[2]))

\* knownHashes: both dictionaries, loaded into fresh maps.
knownNTHashes == loadDictionary(knownNTHashesFile, << >>)
knownLMHashes == loadDictionary(knownLMHashesFile, << >>)

\* fmt.Sprintf("%v", users) of a slice: its elements in their order.
SprintfSlice(users) == users

\* fmt.Sprintf("%v", users) of a map: its key:value pairs, sorted by key.
SprintfMap(users) ==
    LET keys == SelectSeq(Usernames, LAMBDA u : u \in DOMAIN users)
    IN [n \in 1..Len(keys) |-> <<keys[n], users[keys[n]]>>]

findingForFormatLM(users) ==
    [Reference |-> vulnRefLMPassword, Severity |-> "High", Extra |-> SprintfSlice(users)]

findingForWeakPasswords(users) ==
    [Reference |-> vulnRefWeakPass, Severity |-> "Critical", Extra |-> SprintfMap(users)]

\* The first loop of internalScan.
RECURSIVE lmUsers(_)
lmUsers(hs) ==
    IF hs = << >> THEN << >>
    ELSE IF Head(hs).lmHash # ""
         THEN <<Head(hs).username>> \o lmUsers(Tail(hs))
         ELSE lmUsers(Tail(hs))

\* Variant of bruteforceUser that looks the NT hash up first.
bruteforceUserNTFirst(user, res) ==
    IF Len(user.ntHash) > 0 /\ user.ntHash \in DOMAIN knownNTHashes
    THEN MapPut(res, user.username, knownNTHashes[user.ntHash])
    ELSE IF Len(user.lmHash) > 0 /\ user.lmHash \in DOMAIN knownLMHashes
         THEN MapPut(res, user.username, knownLMHashes[user.lmHash])
         ELSE res

\* The body of the loop of bruteforce, after the check of ctx.
bruteforceUser(user, res) ==
    IF Len(user.lmHash) > 0 /\ user.lmHash \in DOMAIN knownLMHashes
    THEN MapPut(res, user.username, knownLMHashes[user.lmHash])
    ELSE IF Len(user.ntHash) > 0 /\ user.ntHash \in DOMAIN knownNTHashes
         THEN MapPut(res, user.username, knownNTHashes[user.ntHash])
         ELSE res

\* The enabled users of the SAM, in the order of their RIDs: n users of
\* different names.
HashesOf(n) ==
    { [k \in 1..n |-> userHashInfo(Usernames[name[k]], lm[k], nt[k])] :
        name \in { f \in [1..n -> 1..Len(Usernames)] :
                      \A a, b \in 1..n : a # b => f[a] # f[b] },
        lm \in [1..n -> LMHashes], nt \in [1..n -> NTHashes] }

InitScan ==
    /\ chainLayers = << >>
    /\ heap = << >>
    /\ inventory = << >>
    /\ originDetails = << >>
    /\ pc = "idle"
    /\ idx = 0
    /\ i = 0
    /\ invKey = NoKey
    /\ foundOrigin = FALSE
    /\ probes = << >>
    /\ cancelled = FALSE
    /\ cancelAt = -1
    /\ outputs = << >>
    /\ knownNTHashesFile \in NTFiles
    /\ knownLMHashesFile \in LMFiles
    /\ \E n \in 0..MaxUsers : hashes \in HashesOf(n)
    /\ usersWithLM = << >>
    /\ results = << >>
    /\ findings = << >>
    /\ scanErr = FALSE
    /\ scanPc = "start"
    /\ scanIdx = 0

\* internalScan up to the call of bruteforce, and bruteforce up to its loop.
ScanFormatLM ==
    /\ scanPc = "start"
    /\ usersWithLM' = lmUsers(hashes)
    /\ findings' = IF Len(lmUsers(hashes)) > 0
                   THEN <<findingForFormatLM(lmUsers(hashes))>>
                   ELSE << >>
    /\ results' = << >>
    /\ scanIdx' = 0
    /\ scanPc' = "bruteforce"
    /\ UNCHANGED <<knownNTHashesFile, knownLMHashesFile, hashes, scanErr>>
    /\ UNCHANGED <<traceVars, cancelled>>

\* ctx.Err() at the head of an iteration: bruteforce and internalScan return
\* nil and the error.
BruteforceCancelled ==
    /\ scanPc = "bruteforce"
    /\ scanIdx < Len(hashes)
    /\ cancelled
    /\ findings' = << >>
    /\ scanErr' = TRUE
    /\ scanPc' = "done"
    /\ UNCHANGED <<knownNTHashesFile, knownLMHashesFile, hashes, usersWithLM, results,
                   scanIdx>>
    /\ UNCHANGED <<traceVars, cancelled>>

BruteforceUser ==
    /\ scanPc = "bruteforce"
    /\ scanIdx < Len(hashes)
    /\ ~cancelled
    /\ results' = bruteforceUser(hashes[scanIdx + 1], results)
    /\ scanIdx' = scanIdx + 1
    /\ UNCHANGED <<knownNTHashesFile, knownLMHashesFile, hashes, usersWithLM, findings,
                   scanErr, scanPc>>
    /\ UNCHANGED <<traceVars, cancelled>>

\* bruteforce returns results; internalScan appends the second finding.
ScanReturn ==
    /\ scanPc = "bruteforce"
    /\ scanIdx = Len(hashes)
    /\ findings' = IF DOMAIN results # {}
                   THEN Append(findings, findingForWeakPasswords(results))
                   ELSE findings
    /\ scanPc' = "done"
    /\ UNCHANGED <<knownNTHashesFile, knownLMHashesFile, hashes, usersWithLM, results,
                   scanErr, scanIdx>>
    /\ UNCHANGED <<traceVars, cancelled>>

\* The caller cancels ctx while the scan runs.
ScanCancel ==
    /\ scanPc \in {"start", "bruteforce"}
    /\ ~cancelled
    /\ cancelled' = TRUE
    /\ UNCHANGED <<traceVars, scanVars>>

NextScan ==
    \/ ScanFormatLM
    \/ BruteforceCancelled
    \/ BruteforceUser
    \/ ScanReturn
    \/ ScanCancel

SpecScan == InitScan /\ [][NextScan]_vars

----------------------------------------------------------------------------
(* Properties of the scan, under SpecScan.                                 *)

\* The entry of hash h in a dictionary file: the clear text of the last line
\* hash;clearPass with that hash.
LinesFor(file, h) == { n \in 1..Len(file) : Len(file[n]) = 2 /\ file[n][1] = h }
InDictionary(file, h) == LinesFor(file, h) # {}
EntryOf(file, h) ==
    file[CHOOSE n \in LinesFor(file, h) : \A m \in LinesFor(file, h) : m <= n][2]

Users == 1..Len(hashes)
HasLM(k) == hashes[k].lmHash # ""
MatchesLM(k) == hashes[k].lmHash # "" /\ InDictionary(knownLMHashesFile, hashes[k].lmHash)
MatchesNT(k) == hashes[k].ntHash # "" /\ InDictionary(knownNTHashesFile, hashes[k].ntHash)
Weak(k) == MatchesLM(k) \/ MatchesNT(k)

References == [n \in 1..Len(findings) |-> findings[n].Reference]

\* The passwords a finding reports for the user of name u.
Reported(finding, u) ==
    { finding.Extra[n][2] : n \in { m \in 1..Len(finding.Extra) : finding.Extra[m][1] = u } }

(* C15: internalScan under a context that is never cancelled. The findings *)
(* hold a PASSWORD_HASH_LM_FORMAT finding iff some user has a non-empty LM *)
(* hash, a WINDOWS_WEAK_PASSWORD finding iff some user has a non-empty LM  *)
(* hash in the LM dictionary or a non-empty NT hash in the NT dictionary,  *)
(* nothing else, and the LM finding first; for each weak user the password *)
(* reported is the LM dictionary's entry when the LM hash matches, else    *)
(* the NT dictionary's.                                                    *)
C15_ScanFindings ==
    (scanPc = "done" /\ ~cancelled) =>
        /\ ~scanErr
        /\ References =
              (IF \E k \in Users : HasLM(k) THEN <<vulnRefLMPassword>> ELSE << >>)
              \o (IF \E k \in Users : Weak(k) THEN <<vulnRefWeakPass>> ELSE << >>)
        /\ \A n \in 1..Len(findings) :
              findings[n].Reference = vulnRefWeakPass =>
                  /\ Len(findings[n].Extra) = Cardinality({ k \in Users : Weak(k) })
                  /\ \A k \in Users :
                        Reported(findings[n], hashes[k].username) =
                            IF MatchesLM(k)
                            THEN {EntryOf(knownLMHashesFile, hashes[k].lmHash)}
                            ELSE IF MatchesNT(k)
                                 THEN {EntryOf(knownNTHashesFile, hashes[k].ntHash)}
                                 ELSE {}

\* Both findings, in order, with a user whose two hashes are in the
\* dictionaries under different passwords and a user who is weak by the NT
\* hash alone.
C15_Witness ==
    /\ scanPc = "done"
    /\ ~cancelled
    /\ References = <<vulnRefLMPassword, vulnRefWeakPass>>
    /\ \E k, m \in Users :
          /\ MatchesLM(k) /\ MatchesNT(k)
          /\ EntryOf(knownLMHashesFile, hashes[k].lmHash)
                # EntryOf(knownNTHashesFile, hashes[k].ntHash)
          /\ Reported(findings[2], hashes[k].username)
                = {EntryOf(knownLMHashesFile, hashes[k].lmHash)}
          /\ ~MatchesLM(m) /\ MatchesNT(m)
          /\ Reported(findings[2], hashes[m].username)
                = {EntryOf(knownNTHashesFile, hashes[m].ntHash)}
          /\ hashes[m].username = Usernames[1]
          /\ k < m

====
